---- MODULE Spec2Model ----
(***************************************************************************)
(* Torsion-parameter fitting models of choderalab/Torsions.                *)
(*                                                                         *)
(*   torsionfit/model.py          TorsionFitModel (hierarchical model,     *)
(*                                torsion_energy, qm_fit)                  *)
(*   torsions/TorsionFitModel.py  TorsionFitModel (legacy model,           *)
(*                                add_missing, update_param, mm_potential) *)
(*                                                                         *)
(* Numbers.  Force constants, offsets and energies are integers.  Angles   *)
(* are multiples of pi/2, so that cos(m * theta) is exactly 1, 0 or -1.    *)
(* The phase pi (3.141592653589793 in the source) is the number Pi below;  *)
(* the code only compares phases to 0 and to pi and stores 0 or 1.         *)
(***************************************************************************)
EXTENDS Integers, Sequences, FiniteSets, TLC

VARIABLES
    pc,                \* "new" before the constructor has run, "constructed" after
    config,            \* the constructor's keyword arguments
    frags,             \* self.frags: the list of fragments
    param,             \* the parameter container (param.dihedral_types)
    continuous_phase,  \* self.continuous_phase
    warned,            \* whether warnings.warn was called
    pymc_parameters,   \* self.pymc_parameters: the latent values
    qm_fit,            \* the observed node: its size and its value
    torsion_energy,    \* the deterministic node's last evaluation, or Stale
    lastOp,            \* the last call made on the legacy model
    steps              \* calls and sampler moves made on the legacy model

vars == <<pc, config, frags, param, continuous_phase, warned, pymc_parameters,
          qm_fit, torsion_energy, lastOp, steps>>

(***************************************************************************)
(* Bounds of the model.                                                    *)
(***************************************************************************)
MaxFrames == 2      \* frames of a fragment: 1..MaxFrames
MaxK == 1           \* sampled force-constant vectors c * <<1,..,6>>: |c| <= MaxK (legacy: 0 <= c <= MaxK)
MaxSteps == 4       \* legacy model: calls and sampler moves after construction

(***************************************************************************)
(* Program constants.                                                      *)
(***************************************************************************)
NumMult == 6              \* n = np.array([1., 2., 3., 4., 5., 6.])
BitstringUpper == 63      \* DiscreteUniform(..., lower=0, upper=63)
Pi == 3                   \* 3.141592653589793, the phase the legacy model tests for
OffsetLower == -50        \* pymc.Uniform(name, lower=-50, upper=50, value=0)
OffsetUpper == 50
LogSigmaKDefault == -460517   \* np.log(0.01), in units of 1e-5
LogSigmaKUpper == 345300      \* pymc.Uniform('log_sigma_k_...', lower=-4.6052, upper=3.453), in units of 1e-5
LogSigmaDefault == -460517    \* np.log(0.01), in units of 1e-5

Stale == [stale |-> TRUE]
NoOp == "none"

(***************************************************************************)
(* Arithmetic helpers.                                                     *)
(***************************************************************************)
RECURSIVE Pow2(_)
Pow2(e) == IF e = 0 THEN 1 ELSE 2 * Pow2(e - 1)

RECURSIVE SumSeq(_)
SumSeq(s) == IF Len(s) = 0 THEN 0 ELSE Head(s) + SumSeq(Tail(s))

RECURSIVE MinSeq(_)
MinSeq(s) ==
    IF Len(s) = 1 THEN s[1]
    ELSE LET r == MinSeq(Tail(s)) IN IF s[1] <= r THEN s[1] ELSE r

\* Python's x & y for non-negative integers.
RECURSIVE BitAnd(_, _)
BitAnd(x, y) ==
    IF x = 0 \/ y = 0 THEN 0
    ELSE (x % 2) * (y % 2) + 2 * BitAnd(x \div 2, y \div 2)

\* cos(a * pi/2) for an integer a.
CosQuarter(a) == <<1, 0, -1, 0>>[(a % 4) + 1]

(***************************************************************************)
(* Torsion identifiers and the parameter container.                        *)
(***************************************************************************)
T1 == <<"A", "B", "C", "D">>

\* tuple(reversed(p))
Reverse(p) == <<p[4], p[3], p[2], p[1]>>

\* The torsions to optimize (param_to_opt / to_optimize(param, stream)).
parameters_to_optimize == <<T1>>

Keys == {parameters_to_optimize[i] : i \in 1..Len(parameters_to_optimize)}
            \cup {Reverse(parameters_to_optimize[i]) : i \in 1..Len(parameters_to_optimize)}

\* DihedralType(phi_k, per, phase)
DihedralType(phi_k, per, phase) == [per |-> per, phi_k |-> phi_k, phase |-> phase]

\* param.dihedral_types[key]
Terms(container, key) == container.dihedral_types[key]

\* A write through param.dihedral_types[key]: the whole term list of key is
\* replaced by terms.  When the container holds one list object under key and
\* under the reversed key, the write is seen under both.
SetTerms(container, key, terms) ==
    [container EXCEPT !.dihedral_types =
        [k \in DOMAIN @ |->
            IF k = key \/ (container.aliased /\ k = Reverse(key)) THEN terms ELSE @[k]]]

\* A container holding the same terms under p and reversed(p), as one list
\* object (aliased) or as two independent lists.
Container(terms, aliased) ==
    [aliased |-> aliased, dihedral_types |-> [k \in Keys |-> terms]]

(***************************************************************************)
(* Fragments.  A fragment holds its frame count, for each of its torsions  *)
(* the angles of every frame (frames x dihedrals of that type), and its    *)
(* energy arrays.  A scan of n frames starting at angle a0 steps by pi/2.  *)
(***************************************************************************)
Frag(n, e, a0) ==
    [n_frames     |-> n,
     phis         |-> [t \in {T1} |-> [f \in 1..n |-> <<a0 + f - 1>>]],
     qm_energy    |-> [j \in 1..e |-> j - 1],
     delta_energy |-> [j \in 1..e |-> j - 1]]

\* The lengths pymc.Normal('qm_fit', mu=torsion_energy, size=size, value=...)
\* is given: the size argument, the value's length and the mean's length.
\* Fragment lists on which the three differ are left to pymc's own shape
\* check, which is not part of this repository, and are not inputs here.
SizesAgree(frs) ==
    LET nf == SumSeq([i \in 1..Len(frs) |-> frs[i].n_frames])
        nq == SumSeq([i \in 1..Len(frs) |-> Len(frs[i].qm_energy)])
        nd == SumSeq([i \in 1..Len(frs) |-> Len(frs[i].delta_energy)])
    IN  nf = nq /\ nq = nd

FragLists ==
    LET one == {<<Frag(n, e, 0)>> : n \in 1..MaxFrames, e \in 1..MaxFrames}
        two == {<<Frag(x[1], x[2], 0), Frag(x[3], x[4], 1)>> :
                    x \in (1..MaxFrames) \X (1..MaxFrames) \X (1..MaxFrames) \X (1..MaxFrames)}
    IN  {frs \in one \cup two : SizesAgree(frs)}

(***************************************************************************)
(* torsionfit/model.py: the latent values and the energy function.         *)
(***************************************************************************)
Mults == 1..NumMult

\* The force-constant vectors the sampler (or .random()) may propose.
KVec(c) == [m \in Mults |-> c * m]
KChoices == {KVec(c) : c \in (0 - MaxK)..MaxK}
OffsetChoices == {0, 5}

\* itertools.product(pool, repeat=r) as a list:
\*   result = [[]]; for each position: result = [x + [y] for x in result for y in pool]
RECURSIVE Product(_, _)
Product(pool, r) ==
    IF r = 0 THEN << <<>> >>
    ELSE LET prev == Product(pool, r - 1)
             np == Len(pool)
         IN  [k \in 1..(Len(prev) * np) |->
                 Append(prev[((k - 1) \div np) + 1], pool[((k - 1) % np) + 1])]

\* self.bitmasks
bitmasks == Product(<<0, 1>>, NumMult)

\* cosines[i][t]: per frame and multiplicity, (1 + cos(phi * n)) summed over
\* the dihedrals of type t.
cosines(frs) ==
    [i \in 1..Len(frs) |->
        [t \in DOMAIN frs[i].phis |->
            [f \in 1..Len(frs[i].phis[t]) |->
                [m \in Mults |->
                    SumSeq([j \in 1..Len(frs[i].phis[t][f]) |->
                                1 + CosQuarter(frs[i].phis[t][f][j] * m)])]]]]

\* K as torsion_energy uses it for torsion t.
KUsed(rj, latents, t) ==
    IF rj
    THEN [m \in Mults |-> latents.K[t][m] * bitmasks[latents.bitstring[t] + 1][m]]
    ELSE latents.K[t]

RECURSIVE SumOver(_, _)
SumOver(S, f) ==
    IF S = {} THEN 0
    ELSE LET x == CHOOSE y \in S : TRUE IN f[x] + SumOver(S \ {x}, f)

\* Fourier_sum of fragment i: for every frame, the sum over the fragment's
\* torsions of (K * cosines[i][t]).sum(1).
Fourier_sum(frs, rj, latents, i) ==
    LET cs == cosines(frs)[i]
    IN  [f \in 1..frs[i].n_frames |->
            SumOver(DOMAIN cs,
                [t \in DOMAIN cs |->
                    SumSeq([m \in Mults |-> KUsed(rj, latents, t)[m] * cs[t][f][m]])])]

\* Fourier_sum_rel: Fourier_sum - min(Fourier_sum), then += offset.
Fourier_sum_rel(frs, rj, latents, i) ==
    LET fs == Fourier_sum(frs, rj, latents, i)
    IN  [f \in 1..Len(fs) |-> fs[f] - MinSeq(fs) + latents.offset[i]]

\* What the body of the loop appends to mm for fragment i.
Appended(frs, rj, latents, i) == Fourier_sum(frs, rj, latents, i)

\* The loop of torsion_energy: mm after the first i fragments, with the index
\* range (first index, one past the last) each np.append gave its fragment.
RECURSIVE EnergyLoop(_, _, _, _)
EnergyLoop(frs, rj, latents, i) ==
    IF i = 0 THEN [mm |-> <<>>, range |-> <<>>]
    ELSE LET before == EnergyLoop(frs, rj, latents, i - 1)
             mm == before.mm \o Appended(frs, rj, latents, i)
         IN  [mm |-> mm, range |-> Append(before.range, <<Len(before.mm), Len(mm)>>)]

\* One evaluation of the deterministic torsion_energy.
TorsionEnergy(frs, rj, latents) ==
    LET r == EnergyLoop(frs, rj, latents, Len(frs))
    IN  [stale |-> FALSE, mm |-> r.mm, range |-> r.range,
         K |-> [t \in DOMAIN latents.K |-> KUsed(rj, latents, t)]]

\* residual_energy: the delta_energy arrays appended in fragment order, with
\* the index range each np.append gave its fragment.
RECURSIVE ResidualLoop(_, _)
ResidualLoop(frs, i) ==
    IF i = 0 THEN [value |-> <<>>, range |-> <<>>]
    ELSE LET before == ResidualLoop(frs, i - 1)
             value == before.value \o frs[i].delta_energy
         IN  [value |-> value,
              range |-> Append(before.range, <<Len(before.value), Len(value)>>)]

\* The observed node qm_fit.
QmFit(frs) ==
    LET r == ResidualLoop(frs, Len(frs))
    IN  [size |-> SumSeq([i \in 1..Len(frs) |-> Len(frs[i].qm_energy)]),
         value |-> r.value, range |-> r.range]

(***************************************************************************)
(* torsionfit/model.py: TorsionFitModel.__init__.                          *)
(***************************************************************************)
Configs ==
    [rj : BOOLEAN, sample_n5 : BOOLEAN, continuous_phase : BOOLEAN,
     sample_phase : BOOLEAN, init_random : BOOLEAN]

\* if not sample_phase and continuous_phase: warnings.warn(...)
WarnsConflict(sample_phase, cont) == ~sample_phase /\ cont

\* Mutant: the conflicting request is left as it is.
ContinuousPhaseAfterM(sample_phase, cont) == cont

\* self.continuous_phase after the options check.
ContinuousPhaseAfter(sample_phase, cont) ==
    IF ~sample_phase /\ cont THEN FALSE ELSE cont

\* Mutant: the test on sample_phase is inverted.
PinsPhaseM(sample_phase) == sample_phase

\* if not self.sample_phase: par.set_phase_0(...)
PinsPhase(sample_phase) == ~sample_phase

ZeroPhases(terms) == [i \in 1..Len(terms) |-> [terms[i] EXCEPT !.phase = 0]]

\* par.set_phase_0(param_list, param): every phase of every listed torsion and
\* of its reverse-order entry becomes 0.
RECURSIVE SetPhase0Loop(_, _, _)
SetPhase0Loop(param_list, container, n) ==
    IF n = 0 THEN container
    ELSE LET c == SetPhase0Loop(param_list, container, n - 1)
             p == param_list[n]
             c1 == SetTerms(c, p, ZeroPhases(Terms(c, p)))
         IN  SetTerms(c1, Reverse(p), ZeroPhases(Terms(c1, Reverse(p))))

set_phase_0(param_list, container) ==
    SetPhase0Loop(param_list, container, Len(param_list))

ToOptimize == {parameters_to_optimize[i] : i \in 1..Len(parameters_to_optimize)}

\* The latents as the constructor creates them: every offset 0, every
\* log_sigma_k log(0.01), every K zeros(6), and with rj every bitstring
\* multiplicity_bitstrings[torsion_name], which is 0.
DefaultLatents(frs, rj) ==
    [offset      |-> [i \in 1..Len(frs) |-> 0],
     log_sigma_k |-> [t \in ToOptimize |-> [m \in Mults |-> LogSigmaKDefault]],
     K           |-> [t \in ToOptimize |-> [m \in Mults |-> 0]],
     bitstring   |-> [t \in (IF rj THEN ToOptimize ELSE {}) |-> 0]]

\* Mutant: .random() is called on log_sigma_k too, which draws its upper bound.
RandomizedM(latents) ==
    {[latents EXCEPT !.offset = o, !.K = k, !.bitstring = b,
                     !.log_sigma_k = [t \in DOMAIN @ |-> [m \in Mults |-> LogSigmaKUpper]]] :
        o \in [DOMAIN latents.offset -> OffsetChoices],
        k \in [DOMAIN latents.K -> KChoices],
        b \in [DOMAIN latents.bitstring -> 0..BitstringUpper]}

\* init_random: .random() on every parameter that is not a Lambda and whose
\* name does not start with log_sigma_k.
Randomized(latents) ==
    {[latents EXCEPT !.offset = o, !.K = k, !.bitstring = b] :
        o \in [DOMAIN latents.offset -> OffsetChoices],
        k \in [DOMAIN latents.K -> KChoices],
        b \in [DOMAIN latents.bitstring -> 0..BitstringUpper]}

\* log_sigma is created after the randomization.
WithLogSigma(latents) ==
    [offset |-> latents.offset, log_sigma_k |-> latents.log_sigma_k,
     K |-> latents.K, bitstring |-> latents.bitstring,
     log_sigma |-> LogSigmaDefault]

Construct ==
    /\ pc = "new"
    /\ warned' = WarnsConflict(config.sample_phase, config.continuous_phase)
    /\ continuous_phase' = ContinuousPhaseAfter(config.sample_phase, config.continuous_phase)
    /\ param' = IF PinsPhase(config.sample_phase)
                THEN set_phase_0(parameters_to_optimize, param)
                ELSE param
    /\ \E l \in (IF config.init_random
                 THEN Randomized(DefaultLatents(frags, config.rj))
                 ELSE {DefaultLatents(frags, config.rj)}) :
           pymc_parameters' = WithLogSigma(l)
    /\ qm_fit' = QmFit(frags)
    /\ torsion_energy' = Stale
    /\ pc' = "constructed"
    /\ UNCHANGED <<config, frags, lastOp, steps>>

(***************************************************************************)
(* The sampler: it assigns a latent a value within its prior's support,    *)
(* after which the deterministic node is evaluated again on demand.        *)
(***************************************************************************)
SampleOffset ==
    /\ pc = "constructed"
    /\ \E i \in DOMAIN pymc_parameters.offset, v \in OffsetChoices :
           pymc_parameters' = [pymc_parameters EXCEPT !.offset[i] = v]
    /\ torsion_energy' = Stale
    /\ UNCHANGED <<pc, config, frags, param, continuous_phase, warned, qm_fit, lastOp, steps>>

SampleK ==
    /\ pc = "constructed"
    /\ \E t \in DOMAIN pymc_parameters.K, k \in KChoices :
           pymc_parameters' = [pymc_parameters EXCEPT !.K[t] = k]
    /\ torsion_energy' = Stale
    /\ UNCHANGED <<pc, config, frags, param, continuous_phase, warned, qm_fit, lastOp, steps>>

\* A reversible-jump move switches one position of the bitstring on or off;
\* every value in 0..63 is reached by such moves.
FlipBit(b, j) == IF (b \div Pow2(j)) % 2 = 1 THEN b - Pow2(j) ELSE b + Pow2(j)

SampleBitstring ==
    /\ pc = "constructed"
    /\ \E t \in DOMAIN pymc_parameters.bitstring, j \in 0..(NumMult - 1) :
           pymc_parameters' =
               [pymc_parameters EXCEPT !.bitstring[t] = FlipBit(@, j)]
    /\ torsion_energy' = Stale
    /\ UNCHANGED <<pc, config, frags, param, continuous_phase, warned, qm_fit, lastOp, steps>>

Evaluate ==
    /\ pc = "constructed"
    /\ torsion_energy' = TorsionEnergy(frags, config.rj, pymc_parameters)
    /\ UNCHANGED <<pc, config, frags, param, continuous_phase, warned,
                   pymc_parameters, qm_fit, lastOp, steps>>

(***************************************************************************)
(* Specifications of torsionfit/model.py.                                  *)
(***************************************************************************)
InitWith(cfgs, fragLists, containers) ==
    /\ pc = "new"
    /\ config \in cfgs
    /\ frags \in fragLists
    /\ param \in containers
    /\ continuous_phase = config.continuous_phase
    /\ warned = FALSE
    /\ pymc_parameters = <<>>
    /\ qm_fit = <<>>
    /\ torsion_energy = Stale
    /\ lastOp = NoOp
    /\ steps = 0

\* Every configuration with continuous_phase at its default, every fragment list.
Init ==
    InitWith({c \in Configs : ~c.continuous_phase}, FragLists,
             {Container(<<DihedralType(1, 2, Pi)>>, FALSE)})

Next == Construct \/ SampleOffset \/ SampleK \/ SampleBitstring \/ Evaluate

Spec == Init /\ [][Next]_vars

\* Every configuration and several starting containers, one fragment of one frame.
BuildTermLists ==
    {<<>>,
     <<DihedralType(1, 2, Pi)>>,
     <<DihedralType(2, 1, 0), DihedralType(1, 3, Pi)>>}

InitBuild ==
    InitWith(Configs, {<<Frag(1, 1, 0)>>},
             {Container(terms, a) : terms \in BuildTermLists, a \in BOOLEAN})

SpecBuild == InitBuild /\ [][Next]_vars

(***************************************************************************)
(* torsions/TorsionFitModel.py: the legacy model.                          *)
(***************************************************************************)
\* multiplicities = [1, 2, 3, 4, 6]
multiplicities == <<1, 2, 3, 4, 6>>

LegacyMults == {multiplicities[i] : i \in 1..Len(multiplicities)}

\* The index of the first term of the list with per == m, 0 when there is none.
FirstWithPer(terms, m) ==
    IF \E i \in 1..Len(terms) : terms[i].per = m
    THEN CHOOSE i \in 1..Len(terms) :
            /\ terms[i].per = m
            /\ \A j \in 1..(i - 1) : terms[j].per # m
    ELSE 0

\* The initial value of the K latent of multiplicity m: 0, or phi_k of the
\* first term with per == m.
InitialK(terms, m) ==
    IF FirstWithPer(terms, m) = 0 THEN 0 ELSE terms[FirstWithPer(terms, m)].phi_k

\* The initial value of the Phase latent of multiplicity m: the loop breaks at
\* the first term with per == m whose phase is 0 (value 0) or pi (value 1).
RECURSIVE InitialPhase(_, _, _)
InitialPhase(terms, m, i) ==
    IF i > Len(terms) THEN 0
    ELSE IF terms[i].per = m /\ terms[i].phase = 0 THEN 0
    ELSE IF terms[i].per = m /\ terms[i].phase = Pi THEN 1
    ELSE InitialPhase(terms, m, i + 1)

\* Mutant: 2**m is added for every m in multiplicities that has a term.
InitialBitstringM(terms) ==
    SumSeq([i \in 1..Len(multiplicities) |->
               IF FirstWithPer(terms, multiplicities[i]) # 0
               THEN Pow2(multiplicities[i]) ELSE 0])

\* multiplicity_bitstrings[torsion_name]: 2**(m-1) added for every m in
\* multiplicities that has a term.
InitialBitstring(terms) ==
    SumSeq([i \in 1..Len(multiplicities) |->
               IF FirstWithPer(terms, multiplicities[i]) # 0
               THEN Pow2(multiplicities[i] - 1) ELSE 0])

LegacyLatents(container) ==
    [K         |-> [t \in ToOptimize |->
                       [m \in LegacyMults |-> InitialK(Terms(container, t), m)]],
     Phase     |-> [t \in ToOptimize |->
                       [m \in LegacyMults |-> InitialPhase(Terms(container, t), m, 1)]],
     bitstring |-> [t \in ToOptimize |-> InitialBitstring(Terms(container, t))]]

LegacyConstruct ==
    /\ pc = "new"
    /\ pymc_parameters' = LegacyLatents(param)
    /\ pc' = "constructed"
    /\ UNCHANGED <<config, frags, param, continuous_phase, warned, qm_fit,
                   torsion_energy, lastOp, steps>>

\* Mutant: the arguments of DihedralType(phi_k, per, phase) are given as
\* (per, phi_k, phase).
RECURSIVE AppendMissingM(_, _, _)
AppendMissingM(terms, per, n) ==
    IF n = 0 THEN terms
    ELSE LET before == AppendMissingM(terms, per, n - 1)
             j == multiplicities[n]
         IN  IF j \notin per THEN Append(before, DihedralType(j, 0, 0)) ELSE before

\* add_missing on one term list: a zero term appended for every multiplicity
\* j of multiplicities that is not in per, the periodicities present at entry.
RECURSIVE AppendMissing(_, _, _)
AppendMissing(terms, per, n) ==
    IF n = 0 THEN terms
    ELSE LET before == AppendMissing(terms, per, n - 1)
             j == multiplicities[n]
         IN  IF j \notin per THEN Append(before, DihedralType(0, j, 0)) ELSE before

RECURSIVE AddMissingLoop(_, _)
AddMissingLoop(container, n) ==
    IF n = 0 THEN container
    ELSE LET c == AddMissingLoop(container, n - 1)
             p == parameters_to_optimize[n]
             terms == Terms(c, p)
             per == {terms[i].per : i \in 1..Len(terms)}
         IN  SetTerms(c, p, AppendMissing(terms, per, Len(multiplicities)))

add_missing(container) == AddMissingLoop(container, Len(parameters_to_optimize))

\* Mutant: the bitmask of multiplicity m is 2**m.
BitSetM(bitstring, m) == BitAnd(bitstring, Pow2(m)) # 0

\* if multiplicity_bitstring & multiplicity_bitmask
BitSet(bitstring, m) == BitAnd(bitstring, Pow2(m - 1)) # 0

\* The body of update_param's inner loop for one term.
UpdatedTerm(term, bitstring, Kt, Pt) ==
    IF BitSet(bitstring, term.per)
    THEN IF term.per = 5
         THEN term
         ELSE [per |-> term.per, phi_k |-> Kt[term.per], phase |-> Pt[term.per]]
    ELSE [term EXCEPT !.phi_k = 0]

RECURSIVE UpdateParamLoop(_, _, _)
UpdateParamLoop(container, latents, n) ==
    IF n = 0 THEN container
    ELSE LET c == UpdateParamLoop(container, latents, n - 1)
             p == parameters_to_optimize[n]
             terms == Terms(c, p)
         IN  SetTerms(c, p,
                 [i \in 1..Len(terms) |->
                     UpdatedTerm(terms[i], latents.bitstring[p], latents.K[p],
                                 latents.Phase[p])])

update_param(container, latents) ==
    UpdateParamLoop(container, latents, Len(parameters_to_optimize))

AddMissing ==
    /\ pc = "constructed"
    /\ steps < MaxSteps
    /\ steps' = steps + 1
    /\ param' = add_missing(param)
    /\ lastOp' = "add_missing"
    /\ UNCHANGED <<pc, config, frags, continuous_phase, warned, pymc_parameters,
                   qm_fit, torsion_energy>>

\* update_param has no raise statement: every call returns.
UpdateParam ==
    /\ pc = "constructed"
    /\ steps < MaxSteps
    /\ steps' = steps + 1
    /\ param' = update_param(param, pymc_parameters)
    /\ lastOp' = "update_param"
    /\ UNCHANGED <<pc, config, frags, continuous_phase, warned, pymc_parameters,
                   qm_fit, torsion_energy>>

\* The sampler of the legacy model: K within [0, 20], Phase in {0, 1}, the
\* bitstring in 0..63.
LegacyKVec(c) == [m \in LegacyMults |-> c * m]

LegacySampleK ==
    /\ pc = "constructed"
    /\ steps < MaxSteps
    /\ steps' = steps + 1
    /\ \E t \in ToOptimize, c \in 0..MaxK :
           pymc_parameters' = [pymc_parameters EXCEPT !.K[t] = LegacyKVec(c)]
    /\ lastOp' = "sample"
    /\ UNCHANGED <<pc, config, frags, param, continuous_phase, warned, qm_fit,
                   torsion_energy>>

LegacySamplePhase ==
    /\ pc = "constructed"
    /\ steps < MaxSteps
    /\ steps' = steps + 1
    /\ \E t \in ToOptimize, v \in 0..1 :
           pymc_parameters' = [pymc_parameters EXCEPT !.Phase[t] = [m \in LegacyMults |-> v]]
    /\ lastOp' = "sample"
    /\ UNCHANGED <<pc, config, frags, param, continuous_phase, warned, qm_fit,
                   torsion_energy>>

LegacySampleBitstring ==
    /\ pc = "constructed"
    /\ steps < MaxSteps
    /\ steps' = steps + 1
    /\ \E t \in ToOptimize, j \in 0..(NumMult - 1) :
           pymc_parameters' = [pymc_parameters EXCEPT !.bitstring[t] = FlipBit(@, j)]
    /\ lastOp' = "sample"
    /\ UNCHANGED <<pc, config, frags, param, continuous_phase, warned, qm_fit,
                   torsion_energy>>

\* mm_potential: self.update_param(param), then for every fragment
\* frag.compute_energy(param) and np.append(mm_energy, frag.mm_energy).  The
\* legacy model is run here on the empty fragment list, so the loop body is
\* not entered and the returned vector is empty.
MmPotential ==
    /\ pc = "constructed"
    /\ steps < MaxSteps
    /\ steps' = steps + 1
    /\ param' = update_param(param, pymc_parameters)
    /\ lastOp' = "mm_potential"
    /\ UNCHANGED <<pc, config, frags, continuous_phase, warned, pymc_parameters,
                   qm_fit, torsion_energy>>

\* Starting containers of the legacy model.
LegacyTermLists ==
    {<<>>,
     <<DihedralType(3, 2, Pi)>>,
     <<DihedralType(2, 1, 0), DihedralType(4, 5, Pi)>>,
     <<DihedralType(0, 3, 0), DihedralType(1, 3, Pi)>>}

InitLegacy ==
    /\ pc = "new"
    /\ config = "legacy"
    /\ frags = <<>>
    /\ param \in {Container(terms, a) : terms \in LegacyTermLists, a \in BOOLEAN}
    /\ continuous_phase = FALSE
    /\ warned = FALSE
    /\ pymc_parameters = <<>>
    /\ qm_fit = <<>>
    /\ torsion_energy = Stale
    /\ lastOp = NoOp
    /\ steps = 0

NextLegacy ==
    \/ LegacyConstruct
    \/ AddMissing
    \/ UpdateParam
    \/ LegacySampleK
    \/ LegacySamplePhase
    \/ LegacySampleBitstring
    \/ MmPotential

SpecLegacy == InitLegacy /\ [][NextLegacy]_vars

(***************************************************************************)
(* The bitstring round trip of the legacy model: a bitstring is decoded    *)
(* with update_param's bit test into the multiplicities it enables, a      *)
(* container holding one term for each of them is built, and the           *)
(* constructor encodes that container into the initial bitstring latent.   *)
(***************************************************************************)
\* The multiplicities update_param treats as enabled under bitstring b.
multiplicities_for(b) == {m \in 1..NumMult : BitSet(b, m)}

\* A term list with one term (force constant 1, phase 0) for each
\* multiplicity of S, in increasing order.
RECURSIVE TermsOf(_, _)
TermsOf(S, m) ==
    IF m = 0 THEN <<>>
    ELSE IF m \in S THEN Append(TermsOf(S, m - 1), DihedralType(1, m, 0))
    ELSE TermsOf(S, m - 1)

Decode ==
    /\ pc = "bitstring"
    /\ param' = Container(TermsOf(multiplicities_for(config.bitstring), NumMult),
                          param.aliased)
    /\ pc' = "new"
    /\ UNCHANGED <<config, frags, continuous_phase, warned, pymc_parameters,
                   qm_fit, torsion_energy, lastOp, steps>>

InitRoundTrip ==
    /\ pc = "bitstring"
    /\ config \in [bitstring : 0..BitstringUpper]
    /\ frags = <<>>
    /\ param \in {Container(<<>>, a) : a \in BOOLEAN}
    /\ continuous_phase = FALSE
    /\ warned = FALSE
    /\ pymc_parameters = <<>>
    /\ qm_fit = <<>>
    /\ torsion_energy = Stale
    /\ lastOp = NoOp
    /\ steps = 0

NextRoundTrip == Decode \/ LegacyConstruct

SpecRoundTrip == InitRoundTrip /\ [][NextRoundTrip]_vars

(***************************************************************************)
(* Properties.                                                             *)
(***************************************************************************)
\* Bit (m-1) of the bitmask b is set.
BitOn(b, m) == (b \div Pow2(m - 1)) % 2 = 1

Evaluated == pc = "constructed" /\ ~torsion_energy.stale

\* The entries of v in the index range r = <<first, one past the last>>.
Segment(v, r) == SubSeq(v, r[1] + 1, r[2])

\* A step that is a returning call of add_missing / update_param.
AddMissingStep == lastOp' = "add_missing" /\ steps' = steps + 1
UpdateParamStep == lastOp' = "update_param" /\ steps' = steps + 1

\* C1: with reversible jump, the force constant torsion_energy uses for
\* multiplicity m of a torsion is the sampled K[m-1] when bit (m-1) of the
\* torsion's bitmask is set, and 0 when it is clear.
C1_MaskFollowsBits ==
    (Evaluated /\ config.rj) =>
        \A t \in DOMAIN torsion_energy.K : \A m \in 1..6 :
            torsion_energy.K[t][m] =
                IF BitOn(pymc_parameters.bitstring[t], m)
                THEN pymc_parameters.K[t][m] ELSE 0

\* C2: the segment of the torsion_energy output that belongs to a fragment is
\* the fragment's Fourier sum minus that sum's minimum plus the fragment's
\* offset, so the minimum of the segment is the offset.
C2_SegmentRelativePlusOffset ==
    Evaluated =>
        \A i \in 1..Len(frags) :
            LET fs == Fourier_sum(frags, config.rj, pymc_parameters, i)
                seg == Segment(torsion_energy.mm, torsion_energy.range[i])
            IN  /\ seg = [f \in 1..Len(fs) |->
                             fs[f] - MinSeq(fs) + pymc_parameters.offset[i]]
                /\ MinSeq(seg) = pymc_parameters.offset[i]

\* C3: after any call of update_param the container's entries for an
\* optimized torsion t and for reversed(t) are term-by-term identical.
C3_ReverseIdentical ==
    lastOp = "update_param" =>
        \A t \in ToOptimize : Terms(param, t) = Terms(param, Reverse(t))

\* A bit of an optimized torsion's bitmask latent is set for a multiplicity
\* that has no term in the container.
MissingTerm ==
    /\ pc = "constructed"
    /\ \E t \in ToOptimize : \E m \in 1..6 :
           /\ BitOn(pymc_parameters.bitstring[t], m)
           /\ \A i \in 1..Len(Terms(param, t)) : Terms(param, t)[i].per # m

\* C4: a call of update_param made while a bit is set for a multiplicity
\* without a term fails with an error; it never returns normally.
C4_MissingTermFails == [][MissingTerm => ~UpdateParamStep]_vars

C7_PhasesPinned ==
    (pc = "constructed" /\ ~config.sample_phase) =>
        \A t \in ToOptimize : \A key \in {t, Reverse(t)} :
            \A i \in 1..Len(Terms(param, key)) : Terms(param, key)[i].phase = 0

\* C7 witness: such a model built on a container with two independent
\* two-term lists (every starting term list holds a term of phase pi).
C7_Witness ==
    /\ pc = "constructed"
    /\ ~config.sample_phase
    /\ ~param.aliased
    /\ Len(Terms(param, T1)) = 2
    /\ Len(Terms(param, Reverse(T1))) = 2

\* C8: construction with sample_phase = false and continuous_phase = true
\* completes, warns and leaves continuous_phase false; in every other
\* configuration continuous_phase is as requested and nothing is warned.
C8_ConflictRecovered ==
    /\ pc = "new" => ENABLED Construct
    /\ pc = "constructed" =>
           IF ~config.sample_phase /\ config.continuous_phase
           THEN warned /\ ~continuous_phase
           ELSE ~warned /\ continuous_phase = config.continuous_phase

\* C8 witness: a model constructed from the conflicting configuration.
C8_Witness ==
    /\ pc = "constructed"
    /\ ~config.sample_phase /\ config.continuous_phase
    /\ warned

\* C9: the index range of every fragment in the torsion_energy output is the
\* index range of its reference energies in the observed value of qm_fit, and
\* the two vectors have the same length.
C9_RangesMatch ==
    Evaluated =>
        /\ Len(torsion_energy.mm) = Len(qm_fit.value)
        /\ \A i \in 1..Len(frags) : torsion_energy.range[i] = qm_fit.range[i]

\* C10: when some fragment's frame count differs from the length of its
\* reference-energy array, the model is not constructed.
C10_MismatchRejected ==
    (\E i \in 1..Len(frags) : frags[i].n_frames # Len(frags[i].delta_energy))
        => pc # "constructed"

\* The constructor has encoded the container decoded from config.bitstring.
RoundTripDone == pc = "constructed" /\ "bitstring" \in DOMAIN config

NonzeroMask(terms) ==
    SumSeq([m \in 1..6 |->
               IF \E i \in 1..Len(terms) : terms[i].per = m /\ terms[i].phi_k # 0
               THEN Pow2(m - 1) ELSE 0])

\* A step that is the construction of the hierarchical model.
ConstructStep == pc = "new" /\ pc' = "constructed" /\ "rj" \in DOMAIN config

\* C12: with reversible jump, the initial value of each torsion's bitmask
\* latent (seen after a construction that does not randomize) is the bitmask
\* of the multiplicities the starting container holds for the torsion with a
\* nonzero force constant, and 0 when there are none.
C12_InitialMaskFromContainer ==
    [][(ConstructStep /\ config.rj /\ ~config.init_random) =>
        \A t \in ToOptimize :
            pymc_parameters'.bitstring[t] = NonzeroMask(Terms(param, t))]_vars

MmPotentialStep == lastOp' = "mm_potential" /\ steps' = steps + 1

\* C14: an evaluation of the deterministic energy function changes no latent
\* value, no fragment data and no parameter container.
C14_EvaluationHasNoEffect ==
    [][MmPotentialStep =>
        /\ pymc_parameters' = pymc_parameters
        /\ frags' = frags
        /\ param' = param]_vars

\* The latents with the multiplicity-5 force constant of every torsion at 0.
WithoutN5(latents) ==
    [latents EXCEPT !.K = [t \in DOMAIN @ |-> [@[t] EXCEPT ![5] = 0]]]

\* C15: with sample_n5 off, the multiplicity-5 force constant contributes
\* nothing to torsion_energy: the output is what it would be with that force
\* constant at 0, whatever its sampled value, with reversible jump on or off.
C15_N5OffContributesNothing ==
    (Evaluated /\ ~config.sample_n5) =>
        torsion_energy.mm =
            TorsionEnergy(frags, config.rj, WithoutN5(pymc_parameters)).mm

\* The containers a run of the legacy model starts from, as they are and as
\* add_missing completes them.
LegacyContainers ==
    LET start == {Container(terms, a) : terms \in LegacyTermLists, a \in BOOLEAN}
    IN  start \cup {add_missing(c) : c \in start}

\* Two containers with the same term structure: the same multiplicities in
\* the same order under every key, held in the same way.
SameStructure(c1, c2) ==
    /\ c1.aliased = c2.aliased
    /\ \A key \in Keys :
           /\ Len(Terms(c1, key)) = Len(Terms(c2, key))
           /\ \A i \in 1..Len(Terms(c1, key)) :
                  Terms(c1, key)[i].per = Terms(c2, key)[i].per

\* The force constants the container holds for the optimized torsions.
ForceConstants(c) ==
    [t \in ToOptimize |-> [i \in 1..Len(Terms(c, t)) |-> Terms(c, t)[i].phi_k]]

\* C16: the force constants update_param leaves in the container depend only
\* on the current latents and the term structure: whatever bitmask values and
\* update_param calls came before, they are the force constants of the run
\* that starts from a container of the same structure, reaches the same
\* latents and calls update_param once (a multiplicity-5 term included).
C16_HistoryIndependent ==
    [][UpdateParamStep =>
        \A c0 \in LegacyContainers :
            SameStructure(c0, param) =>
                ForceConstants(param') =
                    ForceConstants(update_param(c0, pymc_parameters))]_vars

\* C17: update_param called on the legacy model right after construction
\* (steps = 0: no latent has changed and the container is the starting one),
\* on a container whose optimized terms have force constants in [0, 20] and
\* phases in {0, pi}, leaves every term of multiplicity 1, 2, 3, 4 or 6 with
\* the force constant and the phase it had.
C17_ConstructThenUpdateIdentity ==
    [][(/\ UpdateParamStep
        /\ steps = 0
        /\ \A t \in ToOptimize : \A i \in 1..Len(Terms(param, t)) :
               /\ Terms(param, t)[i].phi_k \in 0..20
               /\ Terms(param, t)[i].phase \in {0, Pi})
       =>
        \A t \in ToOptimize : \A i \in 1..Len(Terms(param, t)) :
            Terms(param, t)[i].per \in {1, 2, 3, 4, 6} =>
                /\ Terms(param', t)[i].phi_k = Terms(param, t)[i].phi_k
                /\ Terms(param', t)[i].phase = Terms(param, t)[i].phase]_vars

====
